---------------------------- MODULE Spec2Model ----------------------------
(***************************************************************************)
(* Model of InventoryModule.parse of the mongo_inventory plugin            *)
(* (src/golos1/mongo_plugins/plugins/inventory/mongo_inventory.py).        *)
(*                                                                         *)
(* parse() walks the configured query_groups in order.  For each group it  *)
(* adds the inventory group, resolves (and caches) the database and the    *)
(* collection handle, runs find(), and then consumes the cursor one        *)
(* document at a time: add_host, copy the eligible fields into host        *)
(* variables, derive the keyed groups.  A Python exception (KeyError on a  *)
(* missing dict key, TypeError on str + non-str) leaves parse() at once;   *)
(* what was written to the inventory before it stays written.              *)
(*                                                                         *)
(* One action is one pass through the body of the for loop up to the       *)
(* cursor (StartGroup), one iteration of the while loop (ProcessDoc), the  *)
(* exit of the while loop (EndGroup), the exit of the for loop (Finish),   *)
(* and a further call of parse() on the same inventory (Rerun).            *)
(***************************************************************************)
EXTENDS Integers, Sequences, FiniteSets, TLC

\* ------------------------------------------------------------------ bounds

\* Longest query_groups list of a configuration.
MaxGroups == 2

\* Number of times parse() is called on the same inventory.
MaxRuns == 2

\* ------------------------------------------------------------------ values

\* Field values of a MongoDB document, tagged with their Python type.
Str(s) == [t |-> "str", s |-> s, n |-> 0]
Num(n) == [t |-> "int", s |-> "", n |-> n]
Nested == [t |-> "doc", s |-> "", n |-> 0]

\* The empty dict ({} in Python): a function with the empty domain.
EmptyDict == <<>>

\* An option of the configuration: not set (None in Python), or its value.
Unset == [set |-> FALSE, value |-> FALSE]
Set(v) == [set |-> TRUE, value |-> v]

\* Outcomes of a step: no exception, or the exception that left parse().
NoError == "none"
KeyErrorGroupName == "KeyError:group_name"
KeyErrorDbName == "KeyError:db_name"
KeyErrorCollectionName == "KeyError:collection_name"
KeyErrorQuery == "KeyError:query"
KeyErrorHost == "KeyError:ansible_host"
KeyErrorPort == "KeyError:port"
TypeErrorConcat == "TypeError:str+nonstr"

\* The KeyErrors a malformed query_groups entry raises.
ConfigErrors ==
  {KeyErrorGroupName, KeyErrorDbName, KeyErrorCollectionName, KeyErrorQuery}

\* ansible.vars.reserved.is_reserved_name on the field names of the model:
\* the names of playbook object attributes ("port", "become") are reserved,
\* document field names such as ansible_host, ansible_port, os are not.
is_reserved_name(key) == key \in {"port", "become"}

\* ------------------------------------------------------------ the database

DbNames == {"d1", "d2"}
CollNames == {"c1", "c2"}
GroupNames == {"g1", "g2"}

\* The documents of each collection of each database, in cursor order.
Data(dbn, cn) ==
  CASE dbn = "d1" /\ cn = "c1" ->
         << ("_id" :> Num(1)) @@ ("ansible_host" :> Str("h1"))
              @@ ("port" :> Num(1050)) @@ ("os" :> Str("linux")),
            ("_id" :> Num(2)) @@ ("ansible_host" :> Str("h2"))
              @@ ("ansible_port" :> Num(2000)) @@ ("port" :> Num(2000))
              @@ ("os" :> Str("linux")) >>
    [] dbn = "d1" /\ cn = "c2" ->
         << ("_id" :> Num(3)) @@ ("ansible_host" :> Str("h1"))
              @@ ("os" :> Str("bsd")) @@ ("become" :> Str("yes"))
              @@ ("rack" :> Nested),
            ("_id" :> Num(4)) @@ ("ansible_host" :> Str("h2"))
              @@ ("ansible_port" :> Num(22)) @@ ("os" :> Str("bsd")) >>
    [] dbn = "d2" /\ cn = "c1" ->
         << ("_id" :> Num(5)) @@ ("ansible_host" :> Str("h3"))
              @@ ("ansible_port" :> Num(2200)) @@ ("port" :> Num(22))
              @@ ("os" :> Str("linux")) @@ ("rack" :> Num(3)),
            ("_id" :> Num(6)) @@ ("os" :> Str("linux")) >>
    [] OTHER ->
         << ("_id" :> Num(7)) @@ ("ansible_host" :> Str("h1"))
              @@ ("os" :> Str("win")) @@ ("port" :> Num(8022)) >>

\* A MongoDB filter document: {} matches every document, {f: {$gte: n}}
\* the documents whose field f is a number not below n.
\* A filter is the set of its conditions.
QueryAll == {}
QueryPortGte == {[field |-> "port", gte |-> 1000]}

Matches(doc, query) ==
  \A c \in query :
    /\ c.field \in DOMAIN doc
    /\ doc[c.field].t = "int"
    /\ doc[c.field].n >= c.gte

\* A MongoDB projection, field -> 0|1: with a 1 in it only the fields marked
\* 1 (and _id unless it is marked 0) are returned, otherwise every field
\* but those marked 0.
Project(doc, include) ==
  LET inclusive == \E f \in DOMAIN include : include[f] = 1
      keep == IF inclusive
                THEN {f \in DOMAIN doc :
                        \/ f \in DOMAIN include /\ include[f] = 1
                        \/ f = "_id" /\ ~(f \in DOMAIN include /\ include[f] = 0)}
                ELSE {f \in DOMAIN doc : f \notin DOMAIN include}
  IN  [f \in keep |-> doc[f]]

RECURSIVE FilterSeq(_, _)
FilterSeq(docs, query) ==
  IF docs = <<>> THEN <<>>
  ELSE IF Matches(Head(docs), query)
         THEN <<Head(docs)>> \o FilterSeq(Tail(docs), query)
         ELSE FilterSeq(Tail(docs), query)

\* collection.find(query) on a collection handle.  A handle is the pair
\* <<database name, collection name>> it was opened from.
Find(handle, query) == FilterSeq(Data(handle[1], handle[2]), query)

\* collection.find(query, include).
FindProjected(handle, query, include) ==
  LET hit == Find(handle, query)
  IN  [i \in 1..Len(hit) |-> Project(hit[i], include)]

\* ------------------------------------------------------------ configuration

IncludeNoOs == ("os" :> 0)
IncludeHostOs == ("ansible_host" :> 1) @@ ("os" :> 1) @@ ("_id" :> 0)

WellFormed ==
  { [group_name |-> g, db_name |-> d, collection_name |-> c, query |-> QueryAll] :
      g \in GroupNames, d \in DbNames, c \in CollNames }
  \cup
  { [group_name |-> "g1", db_name |-> "d1", collection_name |-> "c1",
     query |-> QueryPortGte],
    [group_name |-> "g2", db_name |-> "d2", collection_name |-> "c1",
     query |-> QueryPortGte],
    [group_name |-> "g2", db_name |-> "d1", collection_name |-> "c1",
     query |-> QueryAll, include |-> IncludeNoOs],
    [group_name |-> "g1", db_name |-> "d2", collection_name |-> "c2",
     query |-> QueryAll, include |-> IncludeHostOs] }

\* A malformed entry lacks one of the four required keys.
Without(rec, key) == [k \in (DOMAIN rec) \ {key} |-> rec[k]]

Malformed ==
  LET base == [group_name |-> "g2", db_name |-> "d2", collection_name |-> "c2",
               query |-> QueryAll]
  IN  { Without(base, k) :
          k \in {"group_name", "db_name", "collection_name", "query"} }

GroupSpecs == WellFormed \cup Malformed

SeqsUpTo(S, n) == UNION { [1..k -> S] : k \in 1..n }

\* The keyed_groups option: not set, or a list of field names.
KeyedUnset == [set |-> FALSE, value |-> <<>>]

KeyedOptions ==
  {KeyedUnset} \cup
  { Set(l) : l \in {<<>>, <<"os">>, <<"rack">>, <<"os", "rack">>, <<"rack", "os">>} }

\* The exclude_reserved option: not set, True or False.
ExcludeReservedOptions == {Unset, Set(TRUE), Set(FALSE)}

\* Lines 92-94: an exclude_reserved that is not set becomes True.
effective_exclude_reserved(opt) == IF ~opt.set THEN TRUE ELSE opt.value

\* ------------------------------------------------------- the inventory sink
\* ansible.inventory.data.InventoryData as parse() uses it: groups maps a
\* group name to the set of its children, hosts maps a host name to the
\* host's variables.  A fresh InventoryData holds the groups all and
\* ungrouped.  The names Host.get_vars() adds (inventory_hostname,
\* group_names) and add_host() sets (inventory_file, inventory_dir) are
\* outside the field names of the model and left out.

EmptyInventory ==
  [groups |-> ("all" :> {}) @@ ("ungrouped" :> {}), hosts |-> EmptyDict]

\* The optional port argument of add_host.
NoPort == [set |-> FALSE, value |-> Num(0)]

\* inventory.add_group(name): an existing group is left as it is.
add_group(inv, name) ==
  IF name \in DOMAIN inv.groups THEN inv
  ELSE [inv EXCEPT !.groups = @ @@ (name :> {})]

\* inventory.add_host(host, group, port): the host is created on its first
\* occurrence only, and Host(name, port) stores a truthy port as the
\* variable ansible_port; the host is then made a child of the group.
add_host(inv, host, group, port) ==
  LET fresh == IF port.set /\ port.value.n # 0
                 THEN ("ansible_port" :> port.value) ELSE EmptyDict
      made == IF host \in DOMAIN inv.hosts THEN inv
              ELSE [inv EXCEPT !.hosts = @ @@ (host :> fresh)]
  IN  [made EXCEPT !.groups[group] = @ \cup {host}]

\* inventory_host.set_variable(key, value): the last write wins.
set_variable(inv, host, key, value) ==
  [inv EXCEPT !.hosts[host] = (key :> value) @@ @]

\* inventory_host.get_vars().
get_vars(inv, host) == inv.hosts[host]

\* inventory.add_child(group, child): an existing link is left as it is.
add_child(inv, group, child) ==
  [inv EXCEPT !.groups[group] = @ \cup {child}]

\* ------------------------------------------------------------------ state

VARIABLES
  query_groups,        \* option query_groups: the list of group specs
  keyed_groups,        \* option keyed_groups (KeyedUnset when not set)
  exclude_reserved,    \* line 94: the effective exclude_reserved
  inventory,           \* the InventoryData parse() fills
  databases,           \* line 97: db_name -> database handle
  collections,         \* line 98: collection_name -> collection handle
  collection,          \* line 107: the handle find() is called on
  results,             \* the document bound to host and those still in the cursor
  gi,                  \* index of the group the for loop is at
  pc,                  \* "group", "docs", "done" or "aborted"
  err,                 \* the exception that left parse(), or NoError
  run,                 \* number of the current call of parse()
  get_database_calls,  \* db_name -> calls of client.get_database in this run
  get_collection_calls,\* collection_name -> calls of db.get_collection in this run
  find_calls,          \* number of find() calls in this run
  seen,                \* the documents the cursors yielded in this run, with their group
  add_host_call,       \* the arguments of the last add_host call
  first_inventory      \* the inventory as the first run left it

vars ==
  << query_groups, keyed_groups, exclude_reserved, inventory, databases,
     collections, collection, results, gi, pc, err, run, get_database_calls,
     get_collection_calls, find_calls, seen, add_host_call, first_inventory >>

NoHandle == <<"", "">>
NoCall == [called |-> FALSE, host |-> "", group |-> "", port |-> NoPort]

\* --------------------------------------------------- lines 100-112: a group

\* d[key] raises KeyError when the dict lacks the key.
missing(d, key) == key \notin DOMAIN d

\* A cache that is never consulted: every group resolves its handles anew.
cached_never(cache, name) == FALSE

\* Lines 102 and 105: "name not in cache".
cached(cache, name) == name \in DOMAIN cache

\* client.get_database(name): the handle of that database.
get_database(name) == name

\* db.get_collection(name): the handle of that collection of db.
get_collection(db, name) == <<db, name>>

Raised(e, inv, dbs, colls, dbOpened, collOpened) ==
  [err |-> e, inventory |-> inv, databases |-> dbs, collections |-> colls,
   collection |-> NoHandle, db_opened |-> dbOpened, coll_opened |-> collOpened,
   found |-> FALSE, results |-> <<>>]

\* The body of the for loop up to the cursor, on one group spec.
start_group(group, inv, dbs, colls) ==
  IF missing(group, "group_name")
    THEN Raised(KeyErrorGroupName, inv, dbs, colls, FALSE, FALSE)
  ELSE
  LET inv1 == add_group(inv, group.group_name) IN
  IF missing(group, "db_name")
    THEN Raised(KeyErrorDbName, inv1, dbs, colls, FALSE, FALSE)
  ELSE
  LET dbOpened == ~cached(dbs, group.db_name)
      dbs1 == IF dbOpened
                THEN (group.db_name :> get_database(group.db_name)) @@ dbs
                ELSE dbs
      db == dbs1[group.db_name]
  IN
  IF missing(group, "collection_name")
    THEN Raised(KeyErrorCollectionName, inv1, dbs1, colls, dbOpened, FALSE)
  ELSE
  LET collOpened == ~cached(colls, group.collection_name)
      colls1 == IF collOpened
                  THEN (group.collection_name :>
                          get_collection(db, group.collection_name)) @@ colls
                  ELSE colls
      coll == colls1[group.collection_name]
  IN
  IF missing(group, "query")
    THEN Raised(KeyErrorQuery, inv1, dbs1, colls1, dbOpened, collOpened)
  ELSE
    [err |-> NoError, inventory |-> inv1, databases |-> dbs1,
     collections |-> colls1, collection |-> coll, db_opened |-> dbOpened,
     coll_opened |-> collOpened, found |-> TRUE,
     results |-> IF "include" \in DOMAIN group
                   THEN FindProjected(coll, group.query, group.include)
                   ELSE Find(coll, group.query)]

\* ------------------------------------------------ lines 115-133: a document

\* add_host called with a default name for a document without ansible_host
\* (host.get("ansible_host", "localhost")) instead of raising KeyError.
add_host_args_default(doc) ==
  IF missing(doc, "ansible_host")
    THEN [err |-> NoError, host |-> "localhost", port |-> NoPort]
  ELSE IF "ansible_port" \in DOMAIN doc
    THEN IF missing(doc, "port")
           THEN [err |-> KeyErrorPort, host |-> "", port |-> NoPort]
           ELSE [err |-> NoError, host |-> doc["ansible_host"].s,
                 port |-> Set(doc["port"])]
  ELSE [err |-> NoError, host |-> doc["ansible_host"].s, port |-> NoPort]

\* Lines 116-119: the arguments of the add_host call, evaluated left to
\* right: host["ansible_host"], then host["port"] when the document has
\* an ansible_port.
add_host_args(doc) ==
  IF missing(doc, "ansible_host")
    THEN [err |-> KeyErrorHost, host |-> "", port |-> NoPort]
  ELSE IF "ansible_port" \in DOMAIN doc
    THEN IF missing(doc, "port")
           THEN [err |-> KeyErrorPort, host |-> "", port |-> NoPort]
           ELSE [err |-> NoError, host |-> doc["ansible_host"].s,
                 port |-> Set(doc["port"])]
  ELSE [err |-> NoError, host |-> doc["ansible_host"].s, port |-> NoPort]

\* Line 123: the fields of a document that become host variables.
is_host_variable(key, excl) ==
  (~is_reserved_name(key) \/ ~excl) /\ key # "_id"

\* Lines 122-124: the loop over the document's keys.
RECURSIVE set_variables(_, _, _, _, _)
set_variables(inv, host, doc, keys, excl) ==
  IF keys = {} THEN inv
  ELSE LET key == CHOOSE k \in keys : TRUE
           inv1 == IF is_host_variable(key, excl)
                     THEN set_variable(inv, host, key, doc[key])
                     ELSE inv
       IN  set_variables(inv1, host, doc, keys \ {key}, excl)

\* Line 130: key + ":" + host_vars[key] is defined for a str value only.
concatenable(value) == value.t = "str"

group_key(key, value) == key \o ":" \o value.s

\* Lines 128-132: the loop over keyed_groups; the first value that is no
\* str raises TypeError and leaves the groups added so far.
RECURSIVE derive_keyed_groups(_, _, _, _)
derive_keyed_groups(inv, keys, host, host_vars) ==
  IF keys = <<>> THEN [err |-> NoError, inventory |-> inv]
  ELSE LET key == Head(keys) IN
       IF key \notin DOMAIN host_vars
         THEN derive_keyed_groups(inv, Tail(keys), host, host_vars)
       ELSE IF ~concatenable(host_vars[key])
         THEN [err |-> TypeErrorConcat, inventory |-> inv]
       ELSE LET gk == group_key(key, host_vars[key])
                inv1 == add_child(add_group(inv, gk), gk, host)
            IN  derive_keyed_groups(inv1, Tail(keys), host, host_vars)

\* One iteration of the while loop on document doc of group spec group.
process_document(inv, group, doc, excl, keyed) ==
  LET args == add_host_args(doc) IN
  IF args.err # NoError
    THEN [err |-> args.err, inventory |-> inv, call |-> NoCall]
  ELSE
  LET call == [called |-> TRUE, host |-> args.host,
               group |-> group.group_name, port |-> args.port]
      inv1 == add_host(inv, args.host, group.group_name, args.port)
      inv2 == set_variables(inv1, args.host, doc, DOMAIN doc, excl)
      host_vars == get_vars(inv2, args.host)
      derived == IF keyed.set
                   THEN derive_keyed_groups(inv2, keyed.value, args.host, host_vars)
                   ELSE [err |-> NoError, inventory |-> inv2]
  IN  [err |-> derived.err, inventory |-> derived.inventory, call |-> call]

\* ---------------------------------------------------------------- actions

ZeroCalls(S) == [n \in S |-> 0]

Init ==
  /\ query_groups \in SeqsUpTo(GroupSpecs, MaxGroups)
  /\ keyed_groups \in KeyedOptions
  /\ \E opt \in ExcludeReservedOptions :
       exclude_reserved = effective_exclude_reserved(opt)
  /\ inventory = EmptyInventory
  /\ databases = EmptyDict
  /\ collections = EmptyDict
  /\ collection = NoHandle
  /\ results = <<>>
  /\ gi = 1
  /\ pc = "group"
  /\ err = NoError
  /\ run = 1
  /\ get_database_calls = ZeroCalls(DbNames)
  /\ get_collection_calls = ZeroCalls(CollNames)
  /\ find_calls = 0
  /\ seen = <<>>
  /\ add_host_call = NoCall
  /\ first_inventory = EmptyInventory

\* Lines 100-112 for the group the for loop is at.
StartGroup ==
  /\ pc = "group"
  /\ gi <= Len(query_groups)
  /\ LET group == query_groups[gi]
         r == start_group(group, inventory, databases, collections)
     IN  /\ inventory' = r.inventory
         /\ databases' = r.databases
         /\ collections' = r.collections
         /\ collection' = r.collection
         /\ results' = r.results
         /\ err' = r.err
         /\ pc' = IF r.err = NoError THEN "docs" ELSE "aborted"
         /\ get_database_calls' =
              IF r.db_opened
                THEN [get_database_calls EXCEPT ![group.db_name] = @ + 1]
                ELSE get_database_calls
         /\ get_collection_calls' =
              IF r.coll_opened
                THEN [get_collection_calls EXCEPT ![group.collection_name] = @ + 1]
                ELSE get_collection_calls
         /\ find_calls' = IF r.found THEN find_calls + 1 ELSE find_calls
  /\ UNCHANGED << query_groups, keyed_groups, exclude_reserved, gi, run, seen,
                  add_host_call, first_inventory >>

\* Lines 115-133 for the document bound to host.
ProcessDoc ==
  /\ pc = "docs"
  /\ results # <<>>
  /\ LET doc == Head(results)
         r == process_document(inventory, query_groups[gi], doc,
                               exclude_reserved, keyed_groups)
     IN  /\ inventory' = r.inventory
         /\ err' = r.err
         /\ pc' = IF r.err = NoError THEN "docs" ELSE "aborted"
         /\ results' = IF r.err = NoError THEN Tail(results) ELSE results
         /\ add_host_call' = r.call
         /\ seen' = Append(seen, [gi |-> gi, doc |-> doc])
  /\ UNCHANGED << query_groups, keyed_groups, exclude_reserved, databases,
                  collections, collection, gi, run, get_database_calls,
                  get_collection_calls, find_calls, first_inventory >>

\* Line 115: host is None, the while loop ends and the for loop moves on.
EndGroup ==
  /\ pc = "docs"
  /\ results = <<>>
  /\ gi' = gi + 1
  /\ pc' = "group"
  /\ UNCHANGED << query_groups, keyed_groups, exclude_reserved, inventory,
                  databases, collections, collection, results, err, run,
                  get_database_calls, get_collection_calls, find_calls, seen,
                  add_host_call, first_inventory >>

\* Line 100: no group is left, parse() returns.
Finish ==
  /\ pc = "group"
  /\ gi > Len(query_groups)
  /\ pc' = "done"
  /\ first_inventory' = IF run = 1 THEN inventory ELSE first_inventory
  /\ UNCHANGED << query_groups, keyed_groups, exclude_reserved, inventory,
                  databases, collections, collection, results, gi, err, run,
                  get_database_calls, get_collection_calls, find_calls, seen,
                  add_host_call >>

\* Lines 88-99: parse() is called again with the same configuration on the
\* inventory the run before it filled; the caches start empty.
Rerun ==
  /\ pc = "done"
  /\ run < MaxRuns
  /\ run' = run + 1
  /\ databases' = EmptyDict
  /\ collections' = EmptyDict
  /\ collection' = NoHandle
  /\ results' = <<>>
  /\ gi' = 1
  /\ pc' = "group"
  /\ get_database_calls' = ZeroCalls(DbNames)
  /\ get_collection_calls' = ZeroCalls(CollNames)
  /\ find_calls' = 0
  /\ seen' = <<>>
  /\ add_host_call' = NoCall
  /\ UNCHANGED << query_groups, keyed_groups, exclude_reserved, inventory, err,
                  first_inventory >>

Next == StartGroup \/ ProcessDoc \/ EndGroup \/ Finish \/ Rerun

Spec == Init /\ [][Next]_vars

\* ------------------------------------------------------- shared vocabulary

\* The group spec the for loop is at.
CurrentGroup == query_groups[gi]

\* A step of the while loop is about to process this document.
AtDocument == pc = "docs" /\ results # <<>>

HostVars(h) == inventory.hosts[h]

\* The keyed_groups field names in effect (none when the option is not set).
KeyedFields == {keyed_groups.value[i] : i \in 1..Len(keyed_groups.value)}

\* The documents of this run whose iteration of the while loop ran to its
\* end: all the cursors yielded, but the one an exception stopped at.
Completed ==
  IF pc = "aborted" /\ err \notin ConfigErrors
    THEN SubSeq(seen, 1, Len(seen) - 1)
    ELSE seen

\* The hosts a completed document of this run names.
CompletedHosts ==
  {Completed[i].doc["ansible_host"].s : i \in 1..Len(Completed)}

\* ----------------------------------------------------------------- claims

\* C9: within one run get_database is called at most once per db_name and
\* get_collection at most once per collection_name (exactly once for a name
\* in the cache), and the handle find() is called on for a collection name
\* is the one resolved for the first group spec of that name.
C9_HandleResolvedOnce ==
  /\ \A d \in DbNames : get_database_calls[d] <= 1
  /\ \A c \in CollNames : get_collection_calls[c] <= 1
  /\ \A d \in DOMAIN databases : get_database_calls[d] = 1
  /\ \A c \in DOMAIN collections : get_collection_calls[c] = 1
  /\ pc = "docs" =>
       LET c == CurrentGroup.collection_name
           first == CHOOSE i \in 1..gi :
                      /\ query_groups[i].collection_name = c
                      /\ \A j \in 1..(i - 1) : query_groups[j].collection_name # c
       IN  /\ collection = collections[c]
           /\ collection = <<query_groups[first].db_name, c>>

\* C9 witness: the second group spec names the database and collection of
\* the first, its find() has run, and each handle was opened once.
C9_Witness ==
  /\ pc = "docs"
  /\ gi = 2
  /\ query_groups[1].db_name = query_groups[2].db_name
  /\ query_groups[1].collection_name = query_groups[2].collection_name
  /\ find_calls = 2
  /\ get_database_calls[query_groups[2].db_name] = 1
  /\ get_collection_calls[query_groups[2].collection_name] = 1

\* C7: a yielded document without ansible_host aborts the run at that
\* document with the inventory exactly as it was before the document, and
\* an aborted run takes no further step (no later document or group).
C7_MissingHostAborts ==
  [][ /\ pc # "aborted"
      /\ (AtDocument /\ missing(Head(results), "ansible_host")) =>
            /\ pc' = "aborted"
            /\ err' = KeyErrorHost
            /\ inventory' = inventory
            /\ gi' = gi
            /\ find_calls' = find_calls ]_vars

\* C7 witness: the run has aborted on a document without ansible_host, at
\* least the second its cursors yielded, and the host added before it is
\* still a child of its group.
C7_Witness ==
  /\ pc = "aborted"
  /\ err = KeyErrorHost
  /\ Len(seen) >= 2
  /\ missing(seen[Len(seen)].doc, "ansible_host")
  /\ \E h \in DOMAIN inventory.hosts :
       \E g \in DOMAIN inventory.groups : h \in inventory.groups[g]

\* The host a document names.
HostOf(doc) == doc["ansible_host"].s

\* The variable-eligible fields of a document as the specification words
\* them: every field but _id and, under exclude_reserved, the reserved names.
EligibleFields(doc) ==
  {k \in DOMAIN doc :
     k # "_id" /\ (~is_reserved_name(k) \/ ~exclude_reserved)}

\* C1: processing a document that contains ansible_host writes a field k
\* of it as a variable of the host, with the document's value, exactly
\* when k is not _id and k is not reserved or exclude_reserved is false (a
\* field that is not written leaves the host's variable k as it was); no
\* host ever has a variable _id, nor a reserved-named one under
\* exclude_reserved.
C1_VariableFilterRule ==
  [][ /\ (AtDocument /\ ~missing(Head(results), "ansible_host")) =>
            LET doc == Head(results)
                h == HostOf(doc)
                known == h \in DOMAIN inventory.hosts
            IN  /\ h \in DOMAIN inventory'.hosts
                /\ \A k \in DOMAIN doc :
                     IF k \in EligibleFields(doc)
                       THEN /\ k \in DOMAIN inventory'.hosts[h]
                            /\ inventory'.hosts[h][k] = doc[k]
                       ELSE IF known /\ k \in DOMAIN inventory.hosts[h]
                              THEN /\ k \in DOMAIN inventory'.hosts[h]
                                   /\ inventory'.hosts[h][k] = inventory.hosts[h][k]
                              ELSE k \notin DOMAIN inventory'.hosts[h]
      /\ \A h \in DOMAIN inventory'.hosts :
            \A k \in DOMAIN inventory'.hosts[h] :
              /\ k # "_id"
              /\ exclude_reserved => ~is_reserved_name(k) ]_vars

\* C2: processing a document that contains ansible_host makes the host a
\* child of the configured group; with an ansible_port in the document the
\* run does not abort on the port and the host carries that port, without
\* one add_host is called with no port.
C2_PortPassThrough ==
  [][ (AtDocument /\ ~missing(Head(results), "ansible_host")) =>
        LET doc == Head(results)
            h == HostOf(doc)
            g == CurrentGroup.group_name
        IN  /\ err' # KeyErrorPort
            /\ h \in DOMAIN inventory'.hosts
            /\ h \in inventory'.groups[g]
            /\ IF "ansible_port" \in DOMAIN doc
                 THEN /\ "ansible_port" \in DOMAIN inventory'.hosts[h]
                      /\ inventory'.hosts[h]["ansible_port"] = doc["ansible_port"]
                 ELSE /\ add_host_call'.called
                      /\ add_host_call'.port = NoPort ]_vars

\* The keyed groups of host h are derived: every configured field with a
\* str value among h's variables has its group, with h as a child.
KeyedGroupsDerived(h) ==
  \A f \in KeyedFields :
    (f \in DOMAIN HostVars(h) /\ HostVars(h)[f].t = "str") =>
      LET name == f \o ":" \o HostVars(h)[f].s
      IN  name \in DOMAIN inventory.groups /\ h \in inventory.groups[name]

\* C3: a configured keyed_groups field with a nested document as its value
\* among a host's variables does not abort the run, and the host's other
\* configured keyed groups are derived.
C3_KeyedValueErrorRecoverable ==
  \A h \in DOMAIN inventory.hosts :
    \A f \in KeyedFields :
      (f \in DOMAIN HostVars(h) /\ HostVars(h)[f].t = "doc") =>
        /\ err # TypeErrorConcat
        /\ KeyedGroupsDerived(h)

\* C4: once a document of host h has been processed, every configured
\* field with a str value in h's current variables has its group f:v with
\* h as a child; without keyed_groups (not set, or empty) only the
\* configured groups exist; and a second run over the same data leaves the
\* inventory as the first run left it.
C4_KeyedGroupDerivation ==
  /\ \A h \in CompletedHosts : KeyedGroupsDerived(h)
  /\ KeyedFields = {} =>
       DOMAIN inventory.groups \subseteq GroupNames \cup {"all", "ungrouped"}
  /\ (pc = "done" /\ run > 1) => inventory = first_inventory

\* C5: a configured keyed_groups field with an integer value v among a
\* host's variables gives the group f:str(v) with the host as a child, and
\* the run does not abort on it.
C5_NonStringValuesConverted ==
  \A h \in DOMAIN inventory.hosts :
    \A f \in KeyedFields :
      (f \in DOMAIN HostVars(h) /\ HostVars(h)[f].t = "int") =>
        LET name == f \o ":" \o ToString(HostVars(h)[f].n)
        IN  /\ err # TypeErrorConcat
            /\ name \in DOMAIN inventory.groups
            /\ h \in inventory.groups[name]

\* C6: after the run, a host named by exactly two yielded documents, of two
\* different query groups, is a child of both groups and its variables are
\* the eligible fields of both documents, the later document's value kept
\* for a field of both.
C6_AccumulationLastWriteWins ==
  pc \in {"done", "aborted"} =>
    \A i, j \in 1..Len(seen) :
      LET a == seen[i]
          b == seen[j]
      IN  ( /\ i < j
            /\ a.gi # b.gi
            /\ ~missing(a.doc, "ansible_host")
            /\ ~missing(b.doc, "ansible_host")
            /\ HostOf(a.doc) = HostOf(b.doc)
            /\ \A k \in 1..Len(seen) :
                 (k # i /\ k # j /\ ~missing(seen[k].doc, "ansible_host"))
                   => HostOf(seen[k].doc) # HostOf(a.doc) ) =>
          LET h == HostOf(a.doc)
              ea == EligibleFields(a.doc)
              eb == EligibleFields(b.doc)
          IN  /\ h \in DOMAIN inventory.hosts
              /\ h \in inventory.groups[query_groups[a.gi].group_name]
              /\ h \in inventory.groups[query_groups[b.gi].group_name]
              /\ HostVars(h) =
                   [k \in ea \cup eb |-> IF k \in eb THEN b.doc[k] ELSE a.doc[k]]

\* C8: a run that a malformed query_groups entry aborted has executed no
\* find() and opened no database or collection handle.
C8_ConfigErrorsBeforeAnyQuery ==
  (pc = "aborted" /\ err \in ConfigErrors) =>
    /\ find_calls = 0
    /\ databases = EmptyDict
    /\ collections = EmptyDict
    /\ \A d \in DbNames : get_database_calls[d] = 0
    /\ \A c \in CollNames : get_collection_calls[c] = 0

\* C10: the find() of a group spec runs on the collection of that name in
\* the database the spec names, and yields that collection's documents.
C10_QueryTargetsOwnDatabase ==
  pc = "docs" =>
    LET g == CurrentGroup
        own == <<g.db_name, g.collection_name>>
        hit == IF "include" \in DOMAIN g
                 THEN FindProjected(own, g.query, g.include)
                 ELSE Find(own, g.query)
    IN  /\ collection = own
        /\ \E n \in 0..Len(hit) : results = SubSeq(hit, n + 1, Len(hit))

=============================================================================
